---- MODULE Spec2Model ----
(***************************************************************************)
(* GutHib: a Git Smart HTTP server (src/server.js) with push webhooks.     *)
(*                                                                         *)
(* The model covers the request router, the three Smart HTTP handlers, the *)
(* life of the git subprocess each of them spawns, the repository and      *)
(* webhook tables, and the webhook dispatcher (triggerWebhooks).           *)
(*                                                                         *)
(* Text is modelled as sequences of tokens: a URL path is a sequence such  *)
(* as <<"/", "a", ".git", "/", "info", "/", "refs">>, where ".git", "info" *)
(* and so on stand for those runs of characters and every other token is   *)
(* one character.                                                          *)
(***************************************************************************)
EXTENDS Integers, Sequences, FiniteSets, TLC

\* ------------------------------------------------------------------ bounds
MaxReq == 2
MaxHooks == 2
MaxClock == 1
MaxLineLen == 3
\* Chunks a stream may hold before pipe() pauses its source (highWaterMark).
Hwm == 1
\* Chunks of output the kernel pipe and the stdout stream hold unread.
PipeCap == 2
\* Chunks of request body a client sends, chunks of output git writes.
MaxBody == 2
MaxOut == 4
\* Chunks git writes to its standard error.
MaxErr == 1

ReqIds == 1..MaxReq

\* ------------------------------------------------------- inputs (bounded)
\* Repository names as a client may give them (without the .git suffix).
NameA == <<"a">>
NameB == <<"b">>
NameDots == <<"a", ".", ".", "b">>
NameSlash == <<"a", "/", "b">>

\* Names offered to POST /api/repos.
CreatableNames == {NameA, NameDots}
\* Names used in git request URLs.
RequestNames == {NameA, NameDots, NameSlash}

SuffixInfoRefs == <<"/", "info", "/", "refs">>
SuffixUploadPack == <<"/", "git-upload-pack">>
SuffixReceivePack == <<"/", "git-receive-pack">>
SuffixOther == <<"/", "HEAD">>
Suffixes == {SuffixInfoRefs, SuffixUploadPack, SuffixReceivePack, SuffixOther}

Methods == {"GET", "POST"}
\* Values of the `service` query parameter; <<>> is a missing parameter.
NoService == <<>>
Services == {<<"git-upload-pack">>, <<"git-receive-pack">>, <<"git-foo">>, NoService}

\* Webhook URLs a client may register (the handler only requires non-empty).
UrlGood == <<"http:", "//", "hook", "/", "x">>
UrlBad == <<"not a url">>
HookUrls == {UrlGood, UrlBad}
HookSecrets == {<<>>, <<"s">>}

\* Status codes a subscriber may answer with.
HttpStatuses == {200, 500}

\* Outcome of child_process.spawn: started, failed with an asynchronous
\* 'error' event (ENOENT, EACCES, ...), or failed with a synchronous throw.
SpawnOutcomes == {"ok", "error-event", "throws"}

\* ---------------------------------------------------------------- helpers
Last(s) == s[Len(s)]

\* String.prototype.endsWith('.git') on a token sequence.
EndsWithGit(n) == Len(n) >= 1 /\ Last(n) = ".git"

\* Index of the first "/" of s at or after position i, Len(s)+1 if none.
RECURSIVE NextSlash(_, _)
NextSlash(s, i) ==
  IF i > Len(s) THEN Len(s) + 1
  ELSE IF s[i] = "/" THEN i ELSE NextSlash(s, i + 1)

\* The segments of a path that begins with "/": "/a/b" is <<a, b>>.
RECURSIVE Segments(_)
Segments(p) ==
  IF p = <<>> THEN <<>>
  ELSE LET rest == Tail(p)
           k == NextSlash(rest, 1)
       IN <<SubSeq(rest, 1, k - 1)>> \o Segments(SubSeq(rest, k, Len(rest)))

\* new URL(url, base).pathname resolves "." and ".." segments.
RECURSIVE RemoveDotSegments(_, _, _)
RemoveDotSegments(segs, i, acc) ==
  IF i > Len(segs) THEN acc
  ELSE LET s == segs[i]
           tail == IF i = Len(segs) THEN << <<>> >> ELSE <<>>
       IN IF s = <<".", ".">>
            THEN RemoveDotSegments(segs, i + 1,
                   (IF acc = <<>> THEN acc ELSE SubSeq(acc, 1, Len(acc) - 1)) \o tail)
          ELSE IF s = <<".">>
            THEN RemoveDotSegments(segs, i + 1, acc \o tail)
          ELSE RemoveDotSegments(segs, i + 1, Append(acc, s))

NoRepo == <<>>

\* parsePath: /^\/([^/]+\.git)(\/.*)?$/ on the pathname.  The first segment
\* must be at least one character followed by ".git"; the rest of the path
\* (as segments; <<>> and << <<>> >> are both '/') is match[2] || '/'.
parsePath(url) ==
  LET segs == RemoveDotSegments(Segments(url), 1, <<>>)
      first == IF segs = <<>> THEN <<>> ELSE segs[1]
  IN IF Len(first) >= 2 /\ EndsWithGit(first)
       THEN [repo |-> first,
             path |-> IF Tail(segs) = << <<>> >> THEN <<>> ELSE Tail(segs)]
       ELSE [repo |-> NoRepo, path |-> segs]

PathInfoRefs == << <<"info">>, <<"refs">> >>
PathUploadPack == << <<"git-upload-pack">> >>
PathReceivePack == << <<"git-receive-pack">> >>

\* The URL of a git request for `name` (".git" appended by the client).
GitUrl(name, suffix) == <<"/">> \o name \o <<".git">> \o suffix

\* createRepository / deleteRepository: name.endsWith('.git') ? name : name + '.git'
RepoNameOf(name) == IF EndsWithGit(name) THEN name ELSE Append(name, ".git")

ValidServices == {<<"git-upload-pack">>, <<"git-receive-pack">>}

\* The route the request handler takes for a parsed path: the git protocol
\* routes in their order in the handler; everything else reaches the final
\* 404 (none of the paths used here matches a browsing-UI route).
Route(method, parsed, service) ==
  IF parsed.repo = NoRepo THEN "fallthrough"
  ELSE IF parsed.path = PathInfoRefs /\ service \in ValidServices THEN "discovery"
  ELSE IF parsed.path = PathUploadPack /\ method = "POST" THEN "upload"
  ELSE IF parsed.path = PathReceivePack /\ method = "POST" THEN "receive"
  ELSE "fallthrough"

\* webhooks.events is TEXT DEFAULT 'push'; createWebhook never sets it.
EventPush == <<"p", "u", "s", "h">>
DefaultEvents == EventPush

\* String.prototype.includes: `needle` occurs in `hay` as a substring.
Includes(hay, needle) ==
  \E i \in 1..(Len(hay) + 1) :
     /\ i + Len(needle) - 1 <= Len(hay)
     /\ SubSeq(hay, i, i + Len(needle) - 1) = needle

\* new URL(s) throws unless s starts with a scheme.
Schemes == {"http:", "https:"}
UrlParses(u) == Len(u) >= 1 /\ u[1] \in Schemes

\* JSON.stringify({event, repository, timestamp, ...payload}): the members in
\* insertion order.
JsonBody(event, repoName, time, payload) ==
  << <<"event", event>>, <<"repository", repoName>>, <<"timestamp", time>> >> \o payload

PushPayload == << <<"ref", <<"refs/heads/main">> >> >>

\* createHmac('sha256', key).update(msg).digest('hex'), kept symbolic: equal
\* exactly when key and message are equal.
HmacSha256Hex(key, msg) == <<"hmac-sha256", key, msg>>

NoSignature == <<>>
\* Mutant of SignatureHeader: the header is made whether or not the
\* subscription has a secret.
SignatureHeaderAlways(secret, body) == <<"sha256=", HmacSha256Hex(secret, body)>>

\* The X-GutHib-Signature header for a subscription's secret and a body.
SignatureHeader(secret, body) ==
  IF secret # <<>> THEN <<"sha256=", HmacSha256Hex(secret, body)>> ELSE NoSignature

\* ------------------------------------------------------- packet-line codec
\* "Maximum line length is 65520 bytes", the 4 bytes of the prefix included.
MaxPacketLen == 65520
MaxLineBytes == MaxPacketLen - 4

\* String.prototype.length of a token, in UTF-16 code units: the run tokens
\* count their characters, a character outside the BMP counts two.
Units(t) ==
  CASE t = "# service=" -> 10
    [] t = "git-upload-pack" -> 15
    [] t = "git-receive-pack" -> 16
    [] t = "U+1F600" -> 2
    [] t = "x*65516" -> MaxLineBytes
    [] OTHER -> 1

\* The number of bytes res.write(string) sends for a token (UTF-8).
Bytes(t) ==
  CASE t = "# service=" -> 10
    [] t = "git-upload-pack" -> 15
    [] t = "git-receive-pack" -> 16
    [] t = "U+00E9" -> 2
    [] t = "U+20AC" -> 3
    [] t = "U+1F600" -> 4
    [] t = "x*65516" -> MaxLineBytes
    [] OTHER -> 1

\* line.length
RECURSIVE StrLen(_)
StrLen(s) == IF s = <<>> THEN 0 ELSE Units(Head(s)) + StrLen(Tail(s))

\* Buffer.byteLength(line)
RECURSIVE ByteLen(_)
ByteLen(s) == IF s = <<>> THEN 0 ELSE Bytes(Head(s)) + ByteLen(Tail(s))

HexDigits == <<"0", "1", "2", "3", "4", "5", "6", "7", "8", "9", "a", "b", "c", "d", "e", "f">>

\* Number.prototype.toString(16)
RECURSIVE ToHex(_)
ToHex(n) ==
  IF n < 16 THEN <<HexDigits[n + 1]>>
  ELSE Append(ToHex(n \div 16), HexDigits[(n % 16) + 1])

\* String.prototype.padStart(4, '0')
RECURSIVE PadStart4(_)
PadStart4(s) == IF Len(s) >= 4 THEN s ELSE PadStart4(<<"0">> \o s)

\* Mutant of packetLine: the prefix counts the line without its own 4 bytes.
packetLineDataLength(line) == PadStart4(ToHex(StrLen(line))) \o line

\* packetLine: (line.length + 4).toString(16).padStart(4, '0') + line
packetLine(line) == PadStart4(ToHex(StrLen(line) + 4)) \o line

flushPkt == <<"0", "0", "0", "0">>

\* `# service=${service}\n`
AnnounceLine(service) == <<"# service=">> \o service \o <<"\n">>

\* What handleInfoRefs writes to the response before it spawns git.
Announcement(service) == <<packetLine(AnnounceLine(service)), flushPkt>>

\* The bytes of a response body: its writes one after the other.
RECURSIVE Flat(_)
Flat(writes) == IF writes = <<>> THEN <<>> ELSE Head(writes) \o Flat(Tail(writes))

\* The k-th chunk git writes to its standard output.
ChunkNames == <<"c1", "c2", "c3", "c4", "c5">>
Chunk(k) == <<ChunkNames[k]>>

\* ------------------------------------------------------------------ state
VARIABLES
  dirs,        \* the directories under REPOS_DIR (paths relative to it)
  webhooks,    \* the rows of the webhooks table
  nextHookId,  \* the next AUTOINCREMENT id of the webhooks table
  reqs,        \* the git requests: routing outcome, response, subprocess
  disp,        \* per push request: the triggerWebhooks call it started
  deliveries,  \* the outbound webhook requests issued so far, in order
  now,         \* the clock, in milliseconds (Date.now())
  crashed,     \* the server process died of an uncaught exception
  io,          \* per git request: the pipes between client and subprocess
  bare,        \* the directories in which `git init --bare` has finished
  codec,       \* a packet line being encoded and read back
  repositories, \* the rows of the repositories table (their `name` column)
  foreignKeys, \* the database connection enforces foreign keys
  api          \* the last response of the REST API

vars == <<dirs, webhooks, nextHookId, reqs, disp, deliveries, now, crashed, io, bare, codec, repositories, foreignKeys, api>>

IdleReq ==
  [st |-> "idle", method |-> "", name |-> <<>>, suffix |-> <<>>, service |-> NoService,
   repo |-> NoRepo, op |-> "none", status |-> 0, text |-> "", proc |-> "none",
   existed |-> FALSE, code |-> 0, bodyIn |-> "na", conn |-> "open", out |-> <<>>,
   inited |-> FALSE, spawns |-> 0, ctype |-> <<>>, cache |-> <<>>]

NoDispatch == [st |-> "none", hooks |-> <<>>, queue |-> <<>>, prep |-> <<>>, urlErrors |-> {}]

\* The pipes of a request before anything has moved.  stdinHeld: body chunks
\* written to git.stdin that git has not read; reqPaused: req.pipe has paused
\* the request; bodyRead: body chunks read from the connection; consumed:
\* chunks git has read; pmode: git is free ("idle") or inside a write to its
\* stdout ("writing"); written: chunks git has written; pipeOut: chunks git
\* has written that the server has not read; outPaused: stdout.pipe has
\* paused stdout; ack: response items the client has taken; errLogged:
\* chunks of git's standard error given to console.error.
NoIo ==
  [stdinHeld |-> 0, reqPaused |-> FALSE, bodyRead |-> 0, consumed |-> 0, pmode |-> "idle",
   written |-> 0, pipeOut |-> <<>>, outPaused |-> FALSE, ack |-> 0, errLogged |-> 0]

NoCodec == [st |-> "none", line |-> <<>>, wire |-> <<>>, back |-> <<>>]

\* No REST request answered yet.
NoApi == [method |-> "", url |-> <<>>, status |-> 0, body |-> <<>>]

\* The state after start with an empty database and repositories
\* directory.  Outside AdminSpec nothing deletes a repository, and
\* foreign-key enforcement then only refuses some createWebhook calls: those
\* specifications run without it, which allows every behaviour that
\* enforcement allows.
Init ==
  /\ dirs = {}
  /\ webhooks = {}
  /\ nextHookId = 1
  /\ reqs = [r \in ReqIds |-> IdleReq]
  /\ disp = [r \in ReqIds |-> NoDispatch]
  /\ deliveries = <<>>
  /\ now = 0
  /\ crashed = FALSE
  /\ io = [r \in ReqIds |-> NoIo]
  /\ bare = {}
  /\ codec = NoCodec
  /\ repositories = {}
  /\ foreignKeys = FALSE
  /\ api = NoApi

\* ------------------------------------------------- repositories (REST API)
\* path.join normalises a relative path: empty and "." segments go, ".."
\* takes the segment before it away.
RECURSIVE Normalize(_, _)
Normalize(segs, acc) ==
  IF segs = <<>> THEN acc
  ELSE LET s == Head(segs)
       IN IF s = <<>> \/ s = <<".">> THEN Normalize(Tail(segs), acc)
          ELSE IF s = <<".", ".">>
            THEN Normalize(Tail(segs),
                           IF acc = <<>> THEN acc ELSE SubSeq(acc, 1, Len(acc) - 1))
          ELSE Normalize(Tail(segs), Append(acc, s))

\* Segments joined by "/".
RECURSIVE JoinPath(_)
JoinPath(segs) ==
  IF segs = <<>> THEN <<>>
  ELSE IF Len(segs) = 1 THEN segs[1]
  ELSE segs[1] \o <<"/">> \o JoinPath(Tail(segs))

\* getRepoPath: path.join(REPOS_DIR, repoName), relative to REPOS_DIR.
getRepoPath(repoName) == JoinPath(Normalize(Segments(<<"/">> \o repoName), <<>>))

\* fs.mkdirSync(p, {recursive: true}): p and every directory on the way to it.
MkdirP(p) ==
  LET segs == Segments(<<"/">> \o p)
  IN {JoinPath(SubSeq(segs, 1, k)) : k \in 1..Len(segs)}

\* Directory q is p or lies inside p.
Under(p, q) ==
  q = p \/ (Len(q) > Len(p) /\ SubSeq(q, 1, Len(p) + 1) = p \o <<"/">>)

\* createRepository(name) on the present state: the directories and the rows
\* it leaves, and what it returns, or that stmt.run threw (the UNIQUE
\* constraint on repositories.name) after the directory was made.
createRepository(name) ==
  LET repoName == RepoNameOf(name)
      repoPath == getRepoPath(repoName)
  IN IF repoPath \in dirs
       THEN [dirs |-> dirs, repositories |-> repositories, threw |-> FALSE,
             result |-> <<"error", "Repository already exists">>]
     ELSE IF repoName \in repositories
       THEN [dirs |-> dirs \cup MkdirP(repoPath), repositories |-> repositories,
             threw |-> TRUE, result |-> <<>>]
     ELSE [dirs |-> dirs \cup MkdirP(repoPath),
           repositories |-> repositories \cup {repoName}, threw |-> FALSE,
           result |-> <<"success", repoName>>]

\* deleteRepository(name) on the present state.  fs.rmSync removes the
\* directory with all it holds; DELETE FROM repositories WHERE name = ?
\* takes the row of exactly that name, and with foreign keys enforced the
\* deletion of a row cascades to the webhooks that refer to it.
deleteRepository(name) ==
  LET repoName == RepoNameOf(name)
      repoPath == getRepoPath(repoName)
  IN IF repoPath \notin dirs
       THEN [dirs |-> dirs, repositories |-> repositories, webhooks |-> webhooks,
             result |-> <<"error", "Repository not found">>]
     ELSE [dirs |-> {d \in dirs : ~Under(repoPath, d)},
           repositories |-> repositories \ {repoName},
           webhooks |-> IF foreignKeys /\ repoName \in repositories
                          THEN {w \in webhooks : w.repo_name # repoName}
                          ELSE webhooks,
           result |-> <<"success">>]

\* A POST /api/repos that creates the repository (the specifications of the
\* git routes do not look at its response): mkdirSync, a spawn of
\* `git init --bare` that is not waited for, and the row.
CreateRepository(name) ==
  /\ ~crashed
  /\ LET c == createRepository(name)
     IN /\ ~c.threw /\ c.result[1] = "success"
        /\ dirs' = c.dirs
        /\ repositories' = c.repositories
  /\ UNCHANGED <<webhooks, nextHookId, reqs, disp, deliveries, now, crashed, io, bare, codec, foreignKeys, api>>

\* The `git init --bare` that createRepository spawned finishes: the
\* directory is a bare repository from now on.  (Only CreateSpec follows it;
\* no action of the model reads `bare` but to record it.)
InitDone(repoName) ==
  /\ ~crashed
  /\ repoName \in dirs /\ repoName \notin bare
  /\ bare' = bare \cup {repoName}
  /\ UNCHANGED <<dirs, webhooks, nextHookId, reqs, disp, deliveries, now, crashed, io, codec, repositories, foreignKeys, api>>

\* ----------------------------------------------------- webhooks (REST API)
\* The INSERT of createWebhook throws when foreign keys are enforced and no
\* repositories row has the name.
createWebhookThrows(repoName) == foreignKeys /\ repoName \notin repositories

\* POST /api/repos/<repo>.git/webhooks with a non-empty url: createWebhook.
\* The row gets the next id and the column default for `events`.
CreateWebhook(repoName, url, secret) ==
  /\ ~crashed
  /\ nextHookId <= MaxHooks
  /\ EndsWithGit(repoName) /\ Len(repoName) >= 2
  /\ url # <<>>
  /\ ~createWebhookThrows(repoName)
  /\ webhooks' = webhooks \cup
       {[id |-> nextHookId, repo_name |-> repoName, url |-> url,
         secret |-> secret, events |-> DefaultEvents]}
  /\ nextHookId' = nextHookId + 1
  /\ UNCHANGED <<dirs, reqs, disp, deliveries, now, crashed, io, bare, codec, repositories, foreignKeys, api>>

\* DELETE /api/repos/<repo>.git/webhooks/<id>: deleteWebhook(id).
DeleteWebhook(id) ==
  /\ ~crashed
  /\ \E w \in webhooks : w.id = id
  /\ webhooks' = {w \in webhooks : w.id # id}
  /\ UNCHANGED <<dirs, nextHookId, reqs, disp, deliveries, now, crashed, io, bare, codec, repositories, foreignKeys, api>>

\* The rows of a set, newest id first.
RECURSIVE RowsDesc(_)
RowsDesc(rows) ==
  IF rows = {} THEN <<>>
  ELSE LET w == CHOOSE x \in rows : \A y \in rows : y.id <= x.id
       IN <<w>> \o RowsDesc(rows \ {w})

\* listWebhooks: SELECT * FROM webhooks WHERE repo_name = ? ORDER BY created_at DESC
listWebhooks(repoName) == RowsDesc({w \in webhooks : w.repo_name = repoName})

\* deleteWebhook: DELETE FROM webhooks WHERE id = ?
deleteWebhook(id) == {w \in webhooks : w.id # id}

\* ------------------------------------------------------ REST API (router)
\* REST URLs are token sequences too: "/api/repos/" is one token, the rest
\* is a name, "/" and digits, e.g. <<"/api/repos/", "a", ".git", "/",
\* "webhooks", "/", "1">>.
ApiPrefix == "/api/repos/"
Digits == {"0", "1", "2", "3", "4", "5", "6", "7", "8", "9"}

RepoUrl(name) == <<ApiPrefix>> \o name
WebhooksUrl(repoName) == <<ApiPrefix>> \o repoName \o <<"/", "webhooks">>
WebhookUrl(repoName, id) == WebhooksUrl(repoName) \o <<"/">> \o id

\* parseInt of a run of decimal digits.
RECURSIVE parseInt(_)
parseInt(s) ==
  IF s = <<>> THEN 0
  ELSE 10 * parseInt(SubSeq(s, 1, Len(s) - 1))
       + (CHOOSE d \in 0..9 : HexDigits[d + 1] = Last(s))

NoMatch == [matched |-> FALSE, repoName |-> <<>>, webhookId |-> <<>>]

\* req.url.match(/^\/api\/repos\/([^/]+\.git)\/webhooks(\/(\d+))?$/)
webhookMatch(url) ==
  IF url = <<>> \/ Head(url) # ApiPrefix THEN NoMatch
  ELSE LET segs == Segments(<<"/">> \o Tail(url))
       IN IF /\ Len(segs) \in {2, 3}
             /\ Len(segs[1]) >= 2 /\ EndsWithGit(segs[1])
             /\ segs[2] = <<"webhooks">>
             /\ Len(segs) = 3 =>
                  (segs[3] # <<>> /\ \A k \in DOMAIN segs[3] : segs[3][k] \in Digits)
            THEN [matched |-> TRUE, repoName |-> segs[1],
                  webhookId |-> IF Len(segs) = 3 THEN segs[3] ELSE <<>>]
          ELSE NoMatch

\* Mutant of ApiDeleteRoute: the repository route is tried first.
ApiDeleteRouteRepositoryFirst(url) ==
  IF url # <<>> /\ Head(url) = ApiPrefix THEN "repository"
  ELSE IF webhookMatch(url).matched /\ webhookMatch(url).webhookId # <<>> THEN "webhook"
  ELSE "none"

\* The route a DELETE request takes: the webhook routes come before the
\* repository route, and a webhook URL without an id falls through to it.
ApiDeleteRoute(url) ==
  IF webhookMatch(url).matched /\ webhookMatch(url).webhookId # <<>> THEN "webhook"
  ELSE IF url # <<>> /\ Head(url) = ApiPrefix THEN "repository"
  ELSE "none"

\* POST /api/repos with a JSON body {name}: 400 with the error, 201 with
\* the result, or 500 from the catch block when createRepository threw.
ApiCreateRepository(name) ==
  /\ ~crashed
  /\ LET c == createRepository(name)
     IN /\ dirs' = c.dirs
        /\ repositories' = c.repositories
        /\ api' = [method |-> "POST", url |-> <<"/api/repos">>,
                   status |-> IF c.threw THEN 500
                              ELSE IF c.result[1] = "error" THEN 400 ELSE 201,
                   body |-> IF c.threw THEN <<"Internal Server Error">> ELSE c.result]
  /\ UNCHANGED <<webhooks, nextHookId, reqs, disp, deliveries, now, crashed, io, bare, codec, foreignKeys>>

\* POST /api/repos/<repo>.git/webhooks with a JSON body {url, secret}.
ApiCreateWebhook(url, hookUrl, secret) ==
  /\ ~crashed
  /\ webhookMatch(url).matched /\ webhookMatch(url).webhookId = <<>>
  /\ LET repoName == webhookMatch(url).repoName
     IN IF hookUrl = <<>>
          THEN /\ api' = [method |-> "POST", url |-> url, status |-> 400,
                          body |-> <<"error", "URL is required">>]
               /\ UNCHANGED <<webhooks, nextHookId>>
        ELSE IF createWebhookThrows(repoName)
          THEN /\ api' = [method |-> "POST", url |-> url, status |-> 500,
                          body |-> <<"Internal Server Error">>]
               /\ UNCHANGED <<webhooks, nextHookId>>
        ELSE /\ nextHookId <= MaxHooks
             /\ webhooks' = webhooks \cup
                  {[id |-> nextHookId, repo_name |-> repoName, url |-> hookUrl,
                    secret |-> secret, events |-> DefaultEvents]}
             /\ nextHookId' = nextHookId + 1
             /\ api' = [method |-> "POST", url |-> url, status |-> 201,
                        body |-> <<"success">>]
  /\ UNCHANGED <<dirs, reqs, disp, deliveries, now, crashed, io, bare, codec, repositories, foreignKeys>>

\* A DELETE request: deleteWebhook on the webhook route, deleteRepository
\* of req.url.replace('/api/repos/', '') on the repository route.
ApiDelete(url) ==
  /\ ~crashed
  /\ ApiDeleteRoute(url) # "none"
  /\ IF ApiDeleteRoute(url) = "webhook"
       THEN /\ webhooks' = deleteWebhook(parseInt(webhookMatch(url).webhookId))
            /\ api' = [method |-> "DELETE", url |-> url, status |-> 200,
                       body |-> <<"success">>]
            /\ UNCHANGED <<dirs, repositories, bare>>
     ELSE LET d == deleteRepository(Tail(url))
          IN /\ dirs' = d.dirs
             /\ repositories' = d.repositories
             /\ webhooks' = d.webhooks
             /\ bare' = bare \cap d.dirs
             /\ api' = [method |-> "DELETE", url |-> url,
                        status |-> IF d.result[1] = "error" THEN 404 ELSE 200,
                        body |-> d.result]
  /\ UNCHANGED <<nextHookId, reqs, disp, deliveries, now, crashed, io, codec, foreignKeys>>

\* ------------------------------------------------------- git request routes
\* service.replace('git-', '') on the values the router lets through.
ReplaceGitPrefix(service) ==
  IF service = <<"git-upload-pack">> THEN <<"upload-pack">>
  ELSE IF service = <<"git-receive-pack">> THEN <<"receive-pack">>
  ELSE service

\* Mutant of ContentType: the advertisement type is made of the service
\* value as it came.
ContentTypeOfService(route, service) ==
  IF route = "discovery"
    THEN <<"application/x-git-">> \o service \o <<"-advertisement">>
  ELSE IF route = "upload" THEN <<"application/x-git-upload-pack-result">>
  ELSE <<"application/x-git-receive-pack-result">>

\* The Content-Type of the 200 response of the three handlers.
ContentType(route, service) ==
  IF route = "discovery"
    THEN <<"application/x-git-">> \o ReplaceGitPrefix(service) \o <<"-advertisement">>
  ELSE IF route = "upload" THEN <<"application/x-git-upload-pack-result">>
  ELSE <<"application/x-git-receive-pack-result">>

\* 'Cache-Control': 'no-cache'
NoCache == <<"no-cache">>
TextPlain == <<"text/plain">>

\* Mutant of SpawnCalls: git is spawned before the directory is looked for.
SpawnCallsBeforeExistsCheck(route, exists) == IF route = "fallthrough" THEN 0 ELSE 1

\* The calls of spawn a handler makes: one, after the 404 return.
SpawnCalls(route, exists) == IF route # "fallthrough" /\ exists THEN 1 ELSE 0

\* The request handler for a git URL, up to and including the handler's
\* spawn.  handleInfoRefs / handleUploadPack / handleReceivePack answer 404
\* when the directory is missing, else commit status 200 and spawn git.  A
\* spawn that fails leaves an 'error' event nobody listens to (or a throw
\* whose catch block calls writeHead after writeHead): an uncaught exception
\* that ends the server process.
Request(r, method, name, suffix, service, outcome) ==
  /\ ~crashed
  /\ reqs[r].st = "idle"
  /\ \A q \in ReqIds : q < r => reqs[q].st # "idle"
  /\ LET parsed == parsePath(GitUrl(name, suffix))
         route == Route(method, parsed, service)
         base == [IdleReq EXCEPT !.method = method, !.name = name, !.suffix = suffix,
                                 !.service = service, !.repo = parsed.repo,
                                 !.existed = parsed.repo \in dirs,
                                 !.inited = parsed.repo \in bare,
                                 !.spawns = SpawnCalls(route, parsed.repo \in dirs)]
     IN IF route = "fallthrough"
          THEN /\ reqs' = [reqs EXCEPT ![r] =
                     [base EXCEPT !.st = "ended", !.status = 404, !.text = "Not Found",
                                  !.ctype = TextPlain]]
               /\ UNCHANGED crashed
        ELSE IF parsed.repo \notin dirs
          THEN /\ reqs' = [reqs EXCEPT ![r] =
                     [base EXCEPT !.st = "ended", !.op = route, !.status = 404,
                                  !.text = "Repository not found", !.ctype = TextPlain]]
               /\ UNCHANGED crashed
        ELSE /\ reqs' = [reqs EXCEPT ![r] =
                     [base EXCEPT !.st = "open", !.op = route, !.status = 200,
                                  !.ctype = ContentType(route, service),
                                  !.cache = NoCache,
                                  !.proc = IF outcome = "ok" THEN "running" ELSE "failed",
                                  !.bodyIn = IF route = "discovery" THEN "na" ELSE "partial",
                                  !.out = IF route = "discovery"
                                            THEN Announcement(service) ELSE <<>>]]
             /\ crashed' = (outcome # "ok")
  /\ UNCHANGED <<dirs, webhooks, nextHookId, disp, deliveries, now, io, bare, codec, repositories, foreignKeys, api>>

\* The client's request body ends: req.pipe(git.stdin) ends git's stdin
\* (a paused request does not get as far as its end).
ReqBodyEnd(r) ==
  /\ ~crashed
  /\ reqs[r].bodyIn = "partial"
  /\ reqs[r].conn = "open"
  /\ ~io[r].reqPaused
  /\ reqs' = [reqs EXCEPT ![r].bodyIn = "complete"]
  /\ UNCHANGED <<dirs, webhooks, nextHookId, disp, deliveries, now, crashed, io, bare, codec, repositories, foreignKeys, api>>

\* More of the request body arrives after git has exited and before the
\* server has handled the exit: the write to git.stdin fails with EPIPE, an
\* 'error' event on a stream with no listener.
StdinEpipe(r) ==
  /\ ~crashed
  /\ reqs[r].bodyIn = "partial"
  /\ reqs[r].conn = "open"
  /\ reqs[r].proc = "exited"
  /\ crashed' = TRUE
  /\ UNCHANGED <<dirs, webhooks, nextHookId, reqs, disp, deliveries, now, io, bare, codec, repositories, foreignKeys, api>>

\* The client's connection closes while the response is still open.  No
\* handler listens for it; the pipes stop and nothing ends git's stdin.  The
\* response's 'close' makes stdout.pipe unpipe, which pauses stdout.
ClientClose(r) ==
  /\ ~crashed
  /\ reqs[r].st = "open"
  /\ reqs' = [reqs EXCEPT ![r].st = "aborted", ![r].conn = "closed"]
  /\ io' = [io EXCEPT ![r].outPaused = TRUE]
  /\ UNCHANGED <<dirs, webhooks, nextHookId, disp, deliveries, now, crashed, bare, codec, repositories, foreignKeys, api>>

\* git has read its whole input (none for --advertise-refs), is not inside
\* a write, and exits 0.  On the exit child_process resumes stdout.
ProcExitOk(r) ==
  /\ ~crashed
  /\ reqs[r].proc = "running"
  /\ reqs[r].op = "discovery" \/ reqs[r].bodyIn = "complete"
  /\ io[r].stdinHeld = 0 /\ io[r].pmode = "idle"
  /\ reqs' = [reqs EXCEPT ![r].proc = "exited", ![r].code = 0]
  /\ io' = [io EXCEPT ![r].outPaused = FALSE]
  /\ UNCHANGED <<dirs, webhooks, nextHookId, disp, deliveries, now, crashed, bare, codec, repositories, foreignKeys, api>>

\* git exits with a nonzero status, or is killed by a signal (code -1 here,
\* null in the 'close' event).
ProcExitFail(r, code) ==
  /\ ~crashed
  /\ reqs[r].proc = "running"
  /\ code # 0
  /\ reqs' = [reqs EXCEPT ![r].proc = "exited", ![r].code = code]
  /\ io' = [io EXCEPT ![r].outPaused = FALSE, ![r].pmode = "idle"]
  /\ UNCHANGED <<dirs, webhooks, nextHookId, disp, deliveries, now, crashed, bare, codec, repositories, foreignKeys, api>>

\* ------------------------------------------------------------ the two pipes
\* req.pipe(git.stdin): a chunk of the request body is read from the
\* connection and written to git's stdin; the request is paused when the
\* write reports a full buffer.
ReqData(r) ==
  /\ ~crashed
  /\ reqs[r].bodyIn = "partial" /\ reqs[r].conn = "open" /\ reqs[r].proc = "running"
  /\ ~io[r].reqPaused
  /\ io[r].bodyRead < MaxBody
  /\ io' = [io EXCEPT ![r].bodyRead = @ + 1, ![r].stdinHeld = @ + 1,
                      ![r].reqPaused = (io[r].stdinHeld + 1 >= Hwm)]
  /\ UNCHANGED <<dirs, webhooks, nextHookId, reqs, disp, deliveries, now, crashed, bare, codec, repositories, foreignKeys, api>>

\* git reads a chunk of its input; 'drain' resumes the request when the
\* buffer is empty.
ProcRead(r) ==
  /\ ~crashed
  /\ reqs[r].proc = "running" /\ io[r].pmode = "idle"
  /\ io[r].stdinHeld > 0
  /\ io' = [io EXCEPT ![r].stdinHeld = @ - 1, ![r].consumed = @ + 1,
                      ![r].reqPaused = IF io[r].stdinHeld = 1 THEN FALSE ELSE @]
  /\ UNCHANGED <<dirs, webhooks, nextHookId, reqs, disp, deliveries, now, crashed, bare, codec, repositories, foreignKeys, api>>

\* git starts a write to its standard output, which blocks while the pipe
\* is full.
ProcBeginWrite(r) ==
  /\ ~crashed
  /\ reqs[r].proc = "running" /\ io[r].pmode = "idle"
  /\ io[r].written < MaxOut
  /\ io' = [io EXCEPT ![r].pmode = "writing"]
  /\ UNCHANGED <<dirs, webhooks, nextHookId, reqs, disp, deliveries, now, crashed, bare, codec, repositories, foreignKeys, api>>

\* The write goes through: the pipe has room for the chunk.
ProcWrite(r) ==
  /\ ~crashed
  /\ reqs[r].proc = "running" /\ io[r].pmode = "writing"
  /\ Len(io[r].pipeOut) < PipeCap
  /\ io' = [io EXCEPT ![r].pmode = "idle", ![r].written = @ + 1,
                      ![r].pipeOut = Append(@, Chunk(io[r].written + 1))]
  /\ UNCHANGED <<dirs, webhooks, nextHookId, reqs, disp, deliveries, now, crashed, bare, codec, repositories, foreignKeys, api>>

\* Mutant of StderrData: standard error is piped to the response as well.
StderrDataRelayed(r) ==
  /\ ~crashed
  /\ reqs[r].proc = "running"
  /\ io[r].errLogged < MaxErr
  /\ io' = [io EXCEPT ![r].errLogged = @ + 1]
  /\ reqs' = [reqs EXCEPT ![r].out = IF reqs[r].st = "open" THEN Append(@, <<"e1">>) ELSE @]
  /\ UNCHANGED <<dirs, webhooks, nextHookId, disp, deliveries, now, crashed, bare, codec, repositories, foreignKeys, api>>

\* git.stderr.on('data', data => console.error(...)): git writes a chunk to
\* its standard error and the listener logs it.
StderrData(r) ==
  /\ ~crashed
  /\ reqs[r].proc = "running"
  /\ io[r].errLogged < MaxErr
  /\ io' = [io EXCEPT ![r].errLogged = @ + 1]
  /\ reqs' = reqs
  /\ UNCHANGED <<dirs, webhooks, nextHookId, disp, deliveries, now, crashed, bare, codec, repositories, foreignKeys, api>>

\* Response writes the client has not taken yet.
Held(r) == Len(reqs[r].out) - io[r].ack

\* Mutant of StdoutData: the relay ignores what res.write returns.
StdoutDataNoPause(r) ==
  /\ ~crashed
  /\ reqs[r].st = "open"
  /\ io[r].pipeOut # <<>>
  /\ reqs' = [reqs EXCEPT ![r].out = Append(@, Head(io[r].pipeOut))]
  /\ io' = [io EXCEPT ![r].pipeOut = Tail(@)]
  /\ UNCHANGED <<dirs, webhooks, nextHookId, disp, deliveries, now, crashed, bare, codec, repositories, foreignKeys, api>>

\* Mutant of StdoutData: the newest chunk is relayed first.
StdoutDataNewestFirst(r) ==
  /\ ~crashed
  /\ reqs[r].st = "open"
  /\ io[r].pipeOut # <<>> /\ ~io[r].outPaused
  /\ reqs' = [reqs EXCEPT ![r].out = Append(@, Last(io[r].pipeOut))]
  /\ io' = [io EXCEPT ![r].pipeOut = SubSeq(@, 1, Len(@) - 1),
                      ![r].outPaused = (Held(r) + 1 >= Hwm)]
  /\ UNCHANGED <<dirs, webhooks, nextHookId, disp, deliveries, now, crashed, bare, codec, repositories, foreignKeys, api>>

\* Mutant of StdoutData: output is relayed only once the request body has
\* been relayed to its end (one sequential loop for both directions).
StdoutDataAfterBody(r) ==
  /\ ~crashed
  /\ reqs[r].st = "open"
  /\ reqs[r].bodyIn # "partial"
  /\ io[r].pipeOut # <<>> /\ ~io[r].outPaused
  /\ reqs' = [reqs EXCEPT ![r].out = Append(@, Head(io[r].pipeOut))]
  /\ io' = [io EXCEPT ![r].pipeOut = Tail(@),
                      ![r].outPaused = (Held(r) + 1 >= Hwm)]
  /\ UNCHANGED <<dirs, webhooks, nextHookId, disp, deliveries, now, crashed, bare, codec, repositories, foreignKeys, api>>

\* Mutant of StdoutData: the server relays for one subprocess at a time,
\* the oldest that is still running.
StdoutDataOneAtATime(r) ==
  /\ ~crashed
  /\ reqs[r].st = "open"
  /\ \A q \in ReqIds : q < r => reqs[q].proc # "running"
  /\ io[r].pipeOut # <<>> /\ ~io[r].outPaused
  /\ reqs' = [reqs EXCEPT ![r].out = Append(@, Head(io[r].pipeOut))]
  /\ io' = [io EXCEPT ![r].pipeOut = Tail(@),
                      ![r].outPaused = (Held(r) + 1 >= Hwm)]
  /\ UNCHANGED <<dirs, webhooks, nextHookId, disp, deliveries, now, crashed, bare, codec, repositories, foreignKeys, api>>

\* git.stdout.pipe(res): a chunk of git's output is written to the
\* response; stdout is paused when the write reports a full buffer.
StdoutData(r) ==
  /\ ~crashed
  /\ reqs[r].st = "open"
  /\ io[r].pipeOut # <<>> /\ ~io[r].outPaused
  /\ reqs' = [reqs EXCEPT ![r].out = Append(@, Head(io[r].pipeOut))]
  /\ io' = [io EXCEPT ![r].pipeOut = Tail(@),
                      ![r].outPaused = (Held(r) + 1 >= Hwm)]
  /\ UNCHANGED <<dirs, webhooks, nextHookId, disp, deliveries, now, crashed, bare, codec, repositories, foreignKeys, api>>

\* The client takes the oldest write of the response; 'drain' resumes
\* stdout when the buffer is empty.
ClientRead(r) ==
  /\ ~crashed
  /\ reqs[r].conn = "open"
  /\ Held(r) > 0
  /\ io' = [io EXCEPT ![r].ack = @ + 1,
                      ![r].outPaused = IF Held(r) = 1 /\ reqs[r].st = "open" THEN FALSE ELSE @]
  /\ UNCHANGED <<dirs, webhooks, nextHookId, reqs, disp, deliveries, now, crashed, bare, codec, repositories, foreignKeys, api>>

\* ------------------------------------------------------ webhook dispatcher
\* Mutant of PushSucceeded: the exit status is not looked at.
PushSucceededAnyCode(code) == TRUE

\* git.on('close', code => { if (code === 0) triggerWebhooks(...) })
PushSucceeded(code) == code = 0

\* if (!webhook.events.includes(event)) continue;
Subscribed(w, event) == Includes(w.events, event)

\* The for-loop of triggerWebhooks from the head of `queue` up to its next
\* await: subscriptions not subscribed to the event are skipped, a url that
\* new URL() rejects is logged by the catch block and the loop goes on; the
\* first subscription that gets as far as `await import(...)` has its body
\* and its delivery id (Date.now()) made and stays at the head of the queue.
RECURSIVE RunLoop(_, _, _, _, _, _)
RunLoop(hooks, queue, urlErrors, repoName, event, payload) ==
  IF queue = <<>>
    THEN [st |-> "done", hooks |-> hooks, queue |-> <<>>, prep |-> <<>>,
          urlErrors |-> urlErrors]
  ELSE LET w == Head(queue)
       IN IF ~Subscribed(w, event)
            THEN RunLoop(hooks, Tail(queue), urlErrors, repoName, event, payload)
          ELSE IF ~UrlParses(w.url)
            THEN RunLoop(hooks, Tail(queue), urlErrors \cup {w.id}, repoName, event, payload)
          ELSE [st |-> "running", hooks |-> hooks, queue |-> queue,
                prep |-> <<[body |-> JsonBody(event, repoName, now, payload),
                            deliveryId |-> now, event |-> event]>>,
                urlErrors |-> urlErrors]

\* The webhooks rows SnapshotSpec finds in guthib.db when the server starts.
StoredAtStart ==
  {[id |-> 1, repo_name |-> RepoNameOf(NameA), url |-> UrlGood, secret |-> <<>>,
    events |-> DefaultEvents]}

\* Mutant of triggerWebhooks: the subscriptions are those of the start of
\* the request (in SnapshotSpec the rows stored at start).
triggerWebhooksAtArrival(repoName, event, payload) ==
  RunLoop(RowsDesc({w \in StoredAtStart : w.repo_name = repoName}),
          RowsDesc({w \in StoredAtStart : w.repo_name = repoName}),
          {}, repoName, event, payload)

\* triggerWebhooks(repoName, event, payload) up to its first await: `hooks`
\* is the list it loaded, `queue` what the loop has still to visit.
triggerWebhooks(repoName, event, payload) ==
  RunLoop(listWebhooks(repoName), listWebhooks(repoName), {}, repoName, event, payload)

\* Mutant of HasCloseListener: every handler starts the dispatch.
HasCloseListenerAlways(op) == TRUE

\* Only handleReceivePack registers git.on('close', ...).
HasCloseListener(op) == op = "receive"

\* The server handles git's exit: stdout has ended (all of it relayed, or,
\* with the client gone, read and dropped unless stdout is paused), so the
\* pipe ends the response and stdout is closed; the 'close' listener of
\* handleReceivePack starts the dispatch.
ProcClose(r) ==
  /\ ~crashed
  /\ reqs[r].proc = "exited"
  /\ io[r].pipeOut = <<>> \/ (reqs[r].st = "aborted" /\ ~io[r].outPaused)
  /\ reqs' = [reqs EXCEPT ![r].proc = "closed",
                          ![r].st = IF @ = "open" THEN "ended" ELSE @]
  /\ disp' = IF HasCloseListener(reqs[r].op) /\ PushSucceeded(reqs[r].code)
               THEN [disp EXCEPT ![r] = triggerWebhooks(reqs[r].repo, EventPush, PushPayload)]
               ELSE disp
  /\ io' = [io EXCEPT ![r].outPaused = FALSE]
  /\ UNCHANGED <<dirs, webhooks, nextHookId, deliveries, now, crashed, bare, codec, repositories, foreignKeys, api>>

\* The same exit when listWebhooks throws (the SELECT fails: database
\* locked by another process, I/O error, file gone).  The call is the first
\* statement of the async triggerWebhooks, outside its try block, and the
\* 'close' listener neither awaits nor catches the promise: the rejection
\* is unhandled, and an unhandled rejection ends the process.
ProcCloseLoadThrows(r) ==
  /\ ~crashed
  /\ reqs[r].proc = "exited"
  /\ io[r].pipeOut = <<>> \/ (reqs[r].st = "aborted" /\ ~io[r].outPaused)
  /\ HasCloseListener(reqs[r].op) /\ PushSucceeded(reqs[r].code)
  /\ reqs' = [reqs EXCEPT ![r].proc = "closed",
                          ![r].st = IF @ = "open" THEN "ended" ELSE @]
  /\ disp' = [disp EXCEPT ![r] = [NoDispatch EXCEPT !.st = "threw"]]
  /\ crashed' = TRUE
  /\ io' = [io EXCEPT ![r].outPaused = FALSE]
  /\ UNCHANGED <<dirs, webhooks, nextHookId, deliveries, now, bare, codec, repositories, foreignKeys, api>>

\* The outbound request for the subscription at the head of the queue:
\* headers, signature when the subscription has a secret, proto.request,
\* req.write(body), req.end().
Outbound(r, w, p) ==
  [req |-> r, hook |-> w, url |-> w.url, method |-> "POST",
   event |-> p.event, delivery |-> p.deliveryId,
   signature |-> SignatureHeader(w.secret, p.body),
   body |-> p.body, st |-> "pending", status |-> 0]

\* Mutant of DispatchSend: the loop awaits the outcome of every request it
\* has issued before it issues the next.
DispatchSendAwaitsOutcome(r) ==
  /\ ~crashed
  /\ disp[r].st = "running"
  /\ \A i \in DOMAIN deliveries :
       deliveries[i].req = r => deliveries[i].st # "pending"
  /\ deliveries' = Append(deliveries, Outbound(r, Head(disp[r].queue), disp[r].prep[1]))
  /\ disp' = [disp EXCEPT ![r] =
       RunLoop(disp[r].hooks, Tail(disp[r].queue), disp[r].urlErrors, reqs[r].repo,
               disp[r].prep[1].event, PushPayload)]
  /\ UNCHANGED <<dirs, webhooks, nextHookId, reqs, now, crashed, io, bare, codec, repositories, foreignKeys, api>>

\* triggerWebhooks resumes after its awaits: the prepared request is issued
\* and the loop runs on to its next await or to its end.
DispatchSend(r) ==
  /\ ~crashed
  /\ disp[r].st = "running"
  /\ deliveries' = Append(deliveries, Outbound(r, Head(disp[r].queue), disp[r].prep[1]))
  /\ disp' = [disp EXCEPT ![r] =
       RunLoop(disp[r].hooks, Tail(disp[r].queue), disp[r].urlErrors, reqs[r].repo,
               disp[r].prep[1].event, PushPayload)]
  /\ UNCHANGED <<dirs, webhooks, nextHookId, reqs, now, crashed, io, bare, codec, repositories, foreignKeys, api>>

\* The subscriber answers: the response callback logs the status code.
DeliveryResponse(i, status) ==
  /\ ~crashed
  /\ i \in DOMAIN deliveries
  /\ deliveries[i].st = "pending"
  /\ deliveries' = [deliveries EXCEPT ![i].st = "responded", ![i].status = status]
  /\ UNCHANGED <<dirs, webhooks, nextHookId, reqs, disp, now, crashed, io, bare, codec, repositories, foreignKeys, api>>

\* Mutant of DeliveryError: the failed request is issued again.
DeliveryErrorRetries(i) ==
  /\ ~crashed
  /\ i \in DOMAIN deliveries
  /\ deliveries[i].st = "pending"
  /\ deliveries' = Append([deliveries EXCEPT ![i].st = "failed"], deliveries[i])
  /\ UNCHANGED <<dirs, webhooks, nextHookId, reqs, disp, now, crashed, io, bare, codec, repositories, foreignKeys, api>>

\* The connection fails: the 'error' listener logs the message.
DeliveryError(i) ==
  /\ ~crashed
  /\ i \in DOMAIN deliveries
  /\ deliveries[i].st = "pending"
  /\ deliveries' = [deliveries EXCEPT ![i].st = "failed"]
  /\ UNCHANGED <<dirs, webhooks, nextHookId, reqs, disp, now, crashed, io, bare, codec, repositories, foreignKeys, api>>

\* A millisecond passes.
Tick ==
  /\ ~crashed
  /\ now < MaxClock
  /\ now' = now + 1
  /\ UNCHANGED <<dirs, webhooks, nextHookId, reqs, disp, deliveries, crashed, io, bare, codec, repositories, foreignKeys, api>>

\* ------------------------------------------------------------ specification
ExitCodes == {1, -1}

\* Spec: one repository, the webhook subscriptions and the pushes to it.
HookInputs ==
  {<<RepoNameOf(NameA), UrlGood, <<"s">> >>,
   <<RepoNameOf(NameA), UrlGood, <<>> >>,
   <<RepoNameOf(NameA), UrlBad, <<>> >>,
   <<RepoNameOf(NameB), UrlGood, <<>> >>}

PushInputs ==
  {<<"POST", NameA, SuffixReceivePack, NoService>>,
   <<"POST", NameA, SuffixUploadPack, NoService>>}

Next ==
  \/ CreateRepository(NameA)
  \/ \E h \in HookInputs : CreateWebhook(h[1], h[2], h[3])
  \/ \E id \in 1..MaxHooks : DeleteWebhook(id)
  \/ \E r \in ReqIds, in \in PushInputs, o \in SpawnOutcomes :
       Request(r, in[1], in[2], in[3], in[4], o)
  \/ \E r \in ReqIds : ReqBodyEnd(r)
  \/ \E r \in ReqIds : StdinEpipe(r)
  \/ \E r \in ReqIds : ClientClose(r)
  \/ \E r \in ReqIds : ProcExitOk(r)
  \/ \E r \in ReqIds, c \in ExitCodes : ProcExitFail(r, c)
  \/ \E r \in ReqIds : ProcClose(r)
  \/ \E r \in ReqIds : DispatchSend(r)
  \/ \E i \in 1..(MaxReq * MaxHooks), st \in HttpStatuses : DeliveryResponse(i, st)
  \/ \E i \in 1..(MaxReq * MaxHooks) : DeliveryError(i)

Spec == Init /\ [][Next]_vars

\* RouterSpec: the router and the three handlers on every kind of request
\* path, method and service value, with no webhook subscriptions.
GitInputs ==
  {<<m, n, SuffixInfoRefs, sv>> : m \in Methods, n \in RequestNames, sv \in Services}
  \cup {<<m, n, sf, NoService>> : m \in Methods, n \in RequestNames,
                                   sf \in Suffixes \ {SuffixInfoRefs}}

RouterNext ==
  \/ \E n \in CreatableNames : CreateRepository(n)
  \/ \E r \in ReqIds, in \in GitInputs, o \in SpawnOutcomes :
       Request(r, in[1], in[2], in[3], in[4], o)
  \/ \E r \in ReqIds : ReqBodyEnd(r)
  \/ \E r \in ReqIds : StdinEpipe(r)
  \/ \E r \in ReqIds : ClientClose(r)
  \/ \E r \in ReqIds : ProcExitOk(r)
  \/ \E r \in ReqIds, c \in ExitCodes : ProcExitFail(r, c)
  \/ \E r \in ReqIds : ProcClose(r)

RouterSpec == Init /\ [][RouterNext]_vars

\* FairSpec: one push session with the clock running, under the scheduling
\* the event loop gives: an exit the server has been told of is handled, a
\* dispatch that can resume resumes, and a git process that has its whole
\* input finishes.  Nothing obliges a client, a subscriber or a failure.
LiveIds == {1}

FairNext ==
  \/ CreateRepository(NameA)
  \/ \E h \in HookInputs : CreateWebhook(h[1], h[2], h[3])
  \/ \E r \in LiveIds, in \in PushInputs, o \in SpawnOutcomes :
       Request(r, in[1], in[2], in[3], in[4], o)
  \/ \E r \in LiveIds : ReqBodyEnd(r)
  \/ \E r \in LiveIds : StdinEpipe(r)
  \/ \E r \in LiveIds : ClientClose(r)
  \/ \E r \in LiveIds : ProcExitOk(r)
  \/ \E r \in LiveIds, c \in ExitCodes : ProcExitFail(r, c)
  \/ \E r \in LiveIds : ProcClose(r)
  \/ \E r \in LiveIds : DispatchSend(r)
  \/ \E i \in 1..MaxHooks, st \in HttpStatuses : DeliveryResponse(i, st)
  \/ \E i \in 1..MaxHooks : DeliveryError(i)
  \/ Tick

FairSpec ==
  /\ Init
  /\ [][FairNext]_vars
  /\ \A r \in LiveIds :
       WF_vars(ProcExitOk(r)) /\ WF_vars(ProcClose(r)) /\ WF_vars(DispatchSend(r))

\* StreamSpec: one git request of each kind on one repository, with the
\* request body and git's output moving chunk by chunk through the pipes.
StreamInputs ==
  {<<"GET", NameA, SuffixInfoRefs, <<"git-upload-pack">> >>,
   <<"GET", NameA, SuffixInfoRefs, <<"git-receive-pack">> >>,
   <<"POST", NameA, SuffixUploadPack, NoService>>,
   <<"POST", NameA, SuffixReceivePack, NoService>>}

StreamNext ==
  \/ CreateRepository(NameA)
  \/ \E r \in LiveIds, in \in StreamInputs, o \in SpawnOutcomes :
       Request(r, in[1], in[2], in[3], in[4], o)
  \/ \E r \in LiveIds : ReqData(r)
  \/ \E r \in LiveIds : ReqBodyEnd(r)
  \/ \E r \in LiveIds : StdinEpipe(r)
  \/ \E r \in LiveIds : ClientClose(r)
  \/ \E r \in LiveIds : ProcRead(r)
  \/ \E r \in LiveIds : ProcBeginWrite(r)
  \/ \E r \in LiveIds : ProcWrite(r)
  \/ \E r \in LiveIds : StdoutData(r)
  \/ \E r \in LiveIds : StderrData(r)
  \/ \E r \in LiveIds : ClientRead(r)
  \/ \E r \in LiveIds : ProcExitOk(r)
  \/ \E r \in LiveIds, c \in ExitCodes : ProcExitFail(r, c)
  \/ \E r \in LiveIds : ProcClose(r)

StreamSpec == Init /\ [][StreamNext]_vars

\* CreateSpec: a repository is created and initialised while a git request
\* of any kind arrives for it.
CreateNext ==
  \/ CreateRepository(NameA)
  \/ InitDone(RepoNameOf(NameA))
  \/ \E r \in LiveIds, in \in StreamInputs, o \in SpawnOutcomes :
       Request(r, in[1], in[2], in[3], in[4], o)
  \/ \E r \in LiveIds : ReqBodyEnd(r)
  \/ \E r \in LiveIds : StdinEpipe(r)
  \/ \E r \in LiveIds : ClientClose(r)
  \/ \E r \in LiveIds : ProcExitOk(r)
  \/ \E r \in LiveIds, c \in ExitCodes : ProcExitFail(r, c)
  \/ \E r \in LiveIds : ProcClose(r)

CreateSpec == Init /\ [][CreateNext]_vars

\* StreamFairSpec: the same session when nobody stalls: the client sends
\* its body to the end and keeps reading, git reads its input, completes its
\* writes and exits, and the event loop serves every stream that is ready.
StreamFairSpec ==
  /\ Init
  /\ [][StreamNext]_vars
  /\ \A r \in LiveIds :
       /\ WF_vars(ReqData(r)) /\ WF_vars(ReqBodyEnd(r))
       /\ WF_vars(ProcRead(r)) /\ WF_vars(ProcWrite(r)) /\ WF_vars(ProcExitOk(r))
       /\ WF_vars(StdoutData(r)) /\ WF_vars(ClientRead(r)) /\ WF_vars(ProcClose(r))

\* PairSpec: two upload-pack requests in flight, the first on repository A,
\* the second on repository B.  The git process of the first is stalled: it
\* neither reads nor writes nor exits, while its client goes on sending.  The
\* second session runs as in StreamFairSpec.
SlowReq == 1
PeerReq == 2

PairNext ==
  \/ \E n \in {NameA, NameB} : CreateRepository(n)
  \/ \E o \in SpawnOutcomes : Request(SlowReq, "POST", NameA, SuffixUploadPack, NoService, o)
  \/ \E o \in SpawnOutcomes : Request(PeerReq, "POST", NameB, SuffixUploadPack, NoService, o)
  \/ \E r \in {SlowReq, PeerReq} : ReqData(r)
  \/ \E r \in {SlowReq, PeerReq} : ReqBodyEnd(r)
  \/ \E r \in {SlowReq, PeerReq} : ClientClose(r)
  \/ StdinEpipe(PeerReq)
  \/ ProcRead(PeerReq)
  \/ ProcBeginWrite(PeerReq)
  \/ ProcWrite(PeerReq)
  \/ StdoutData(PeerReq)
  \/ ClientRead(PeerReq)
  \/ ProcExitOk(PeerReq)
  \/ \E c \in ExitCodes : ProcExitFail(PeerReq, c)
  \/ ProcClose(PeerReq)

PairSpec ==
  /\ Init
  /\ [][PairNext]_vars
  /\ WF_vars(ReqData(PeerReq)) /\ WF_vars(ReqBodyEnd(PeerReq))
  /\ WF_vars(ProcRead(PeerReq)) /\ WF_vars(ProcWrite(PeerReq))
  /\ WF_vars(ProcExitOk(PeerReq))
  /\ WF_vars(StdoutData(PeerReq)) /\ WF_vars(ClientRead(PeerReq))
  /\ WF_vars(ProcClose(PeerReq))

\* FilterSpec: pushes to a repository whose webhooks rows the server finds
\* in guthib.db when it starts.  The `events` column is free text: only the
\* column default is ever written by createWebhook, any other value comes
\* from whoever else writes the table.
EventTexts ==
  {<<"p", "u", "s", "h">>,
   <<"p", "u", "s", "h", ",", "t", "a", "g">>,
   <<"t", "a", "g">>,
   <<"p", "u", "s", "h", "e", "d">>}

FilterInit ==
  /\ dirs = {RepoNameOf(NameA)}
  /\ \E e1, e2 \in EventTexts :
       webhooks = {[id |-> 1, repo_name |-> RepoNameOf(NameA), url |-> UrlGood,
                    secret |-> <<>>, events |-> e1],
                   [id |-> 2, repo_name |-> RepoNameOf(NameA), url |-> UrlGood,
                    secret |-> <<>>, events |-> e2]}
  /\ nextHookId = 3
  /\ reqs = [r \in ReqIds |-> IdleReq]
  /\ disp = [r \in ReqIds |-> NoDispatch]
  /\ deliveries = <<>>
  /\ now = 0
  /\ crashed = FALSE
  /\ io = [r \in ReqIds |-> NoIo]
  /\ bare = {RepoNameOf(NameA)}
  /\ codec = NoCodec
  /\ repositories = {RepoNameOf(NameA)}
  /\ foreignKeys = FALSE
  /\ api = NoApi

FilterNext ==
  \/ \E r \in LiveIds, o \in SpawnOutcomes :
       Request(r, "POST", NameA, SuffixReceivePack, NoService, o)
  \/ \E r \in LiveIds : ReqBodyEnd(r)
  \/ \E r \in LiveIds : StdinEpipe(r)
  \/ \E r \in LiveIds : ClientClose(r)
  \/ \E r \in LiveIds : ProcExitOk(r)
  \/ \E r \in LiveIds, c \in ExitCodes : ProcExitFail(r, c)
  \/ \E r \in LiveIds : ProcClose(r)
  \/ \E r \in LiveIds : DispatchSend(r)
  \/ \E i \in 1..2, st \in HttpStatuses : DeliveryResponse(i, st)
  \/ \E i \in 1..2 : DeliveryError(i)

FilterSpec == FilterInit /\ [][FilterNext]_vars

\* DispatchSpec: pushes, fetches and discovery on one repository with
\* subscriptions, where every git process starts and no client goes on sending after git's
\* exit, so that the only failures are the dispatcher's own: the
\* subscriptions cannot be loaded, a URL does not parse, a delivery fails.
DispatchInputs ==
  PushInputs \cup {<<"GET", NameA, SuffixInfoRefs, <<"git-receive-pack">> >>}

DispatchNext ==
  \/ CreateRepository(NameA)
  \/ \E h \in HookInputs : CreateWebhook(h[1], h[2], h[3])
  \/ \E r \in ReqIds, in \in DispatchInputs : Request(r, in[1], in[2], in[3], in[4], "ok")
  \/ \E r \in ReqIds : ReqBodyEnd(r)
  \/ \E r \in ReqIds : ProcExitOk(r)
  \/ \E r \in ReqIds, c \in ExitCodes : ProcExitFail(r, c)
  \/ \E r \in ReqIds : ProcClose(r)
  \/ \E r \in ReqIds : ProcCloseLoadThrows(r)
  \/ \E r \in ReqIds : DispatchSend(r)
  \/ \E i \in 1..(MaxReq * MaxHooks), st \in HttpStatuses : DeliveryResponse(i, st)
  \/ \E i \in 1..(MaxReq * MaxHooks) : DeliveryError(i)

DispatchSpec == Init /\ [][DispatchNext]_vars

\* SnapshotSpec: one push to a repository that has a subscription when the
\* server starts, with the webhook REST calls arriving while the push is in
\* flight: after the request has come in and before the server has seen
\* its subprocess close.
InFlight(r) == reqs[r].proc \in {"running", "exited"}

SnapshotInit ==
  /\ dirs = {RepoNameOf(NameA)}
  /\ webhooks = StoredAtStart
  /\ nextHookId = 2
  /\ reqs = [r \in ReqIds |-> IdleReq]
  /\ disp = [r \in ReqIds |-> NoDispatch]
  /\ deliveries = <<>>
  /\ now = 0
  /\ crashed = FALSE
  /\ io = [r \in ReqIds |-> NoIo]
  /\ bare = {RepoNameOf(NameA)}
  /\ codec = NoCodec
  /\ repositories = {RepoNameOf(NameA)}
  /\ foreignKeys = FALSE
  /\ api = NoApi

SnapshotNext ==
  \/ \E r \in LiveIds, o \in SpawnOutcomes :
       Request(r, "POST", NameA, SuffixReceivePack, NoService, o)
  \/ \E r \in LiveIds, h \in HookInputs : InFlight(r) /\ CreateWebhook(h[1], h[2], h[3])
  \/ \E r \in LiveIds, id \in 1..MaxHooks : InFlight(r) /\ DeleteWebhook(id)
  \/ \E r \in LiveIds : ReqBodyEnd(r)
  \/ \E r \in LiveIds : StdinEpipe(r)
  \/ \E r \in LiveIds : ClientClose(r)
  \/ \E r \in LiveIds : ProcExitOk(r)
  \/ \E r \in LiveIds, c \in ExitCodes : ProcExitFail(r, c)
  \/ \E r \in LiveIds : ProcClose(r)
  \/ \E r \in LiveIds : DispatchSend(r)
  \/ \E i \in 1..MaxHooks, st \in HttpStatuses : DeliveryResponse(i, st)
  \/ \E i \in 1..MaxHooks : DeliveryError(i)

SnapshotSpec == SnapshotInit /\ [][SnapshotNext]_vars

\* AdminSpec: the REST API on repositories and webhooks.  Names are as a
\* client may send them: plain, nested under a directory that has the name
\* of a repository, and a path that path.join resolves to a plain name.
\* Whether the connection enforces foreign keys depends on the node:sqlite
\* the server runs on (the constructor option enableForeignKeyConstraints
\* is left to its default) and is fixed when the server starts.
NameNested == <<"a", ".git", "/", "b">>
NameAlias == <<"x", "/", ".", ".", "/", "a">>
AdminNames == {NameA, NameNested, NameAlias}

AdminDeleteUrls ==
  {RepoUrl(n) : n \in AdminNames}
  \cup {WebhookUrl(RepoNameOf(NameA), <<"1">>), WebhookUrl(RepoNameOf(NameB), <<"2">>),
        WebhooksUrl(RepoNameOf(NameA))}

AdminInit ==
  /\ dirs = {}
  /\ webhooks = {}
  /\ nextHookId = 1
  /\ reqs = [r \in ReqIds |-> IdleReq]
  /\ disp = [r \in ReqIds |-> NoDispatch]
  /\ deliveries = <<>>
  /\ now = 0
  /\ crashed = FALSE
  /\ io = [r \in ReqIds |-> NoIo]
  /\ bare = {}
  /\ codec = NoCodec
  /\ repositories = {}
  /\ foreignKeys \in BOOLEAN
  /\ api = NoApi

AdminNext ==
  \/ \E n \in AdminNames : ApiCreateRepository(n)
  \/ \E n \in {NameA, NameB}, u \in {UrlGood, <<>>} :
       ApiCreateWebhook(WebhooksUrl(RepoNameOf(n)), u, <<>>)
  \/ \E u \in AdminDeleteUrls : ApiDelete(u)

AdminSpec == AdminInit /\ [][AdminNext]_vars

\* ------------------------------------------------------ packet-line round trip
\* The lines given to packetLine: up to MaxLineLen characters of ASCII, of
\* the two-byte U+00E9 and of U+1F600 (a surrogate pair), the two service
\* announcements, and one line of the greatest length.
LineChars == {"h", "\n", "U+00E9", "U+1F600"}
Lines ==
  UNION {[1..n -> LineChars] : n \in 0..MaxLineLen}
  \cup {AnnounceLine(sv) : sv \in ValidServices}
  \cup {<<"x*65516">>}

CodecInit ==
  /\ dirs = {}
  /\ webhooks = {}
  /\ nextHookId = 1
  /\ reqs = [r \in ReqIds |-> IdleReq]
  /\ disp = [r \in ReqIds |-> NoDispatch]
  /\ deliveries = <<>>
  /\ now = 0
  /\ crashed = FALSE
  /\ io = [r \in ReqIds |-> NoIo]
  /\ bare = {}
  /\ codec \in {[NoCodec EXCEPT !.st = "line", !.line = l] : l \in Lines}
  /\ repositories = {}
  /\ foreignKeys = FALSE
  /\ api = NoApi

\* res.write(packetLine(line)): the packet as it goes to the wire.
Encode ==
  /\ codec.st = "line"
  /\ codec' = [codec EXCEPT !.st = "encoded", !.wire = packetLine(codec.line)]
  /\ UNCHANGED <<dirs, webhooks, nextHookId, reqs, disp, deliveries, now, crashed, io, bare, repositories, foreignKeys, api>>

\* The value of a run of hex digits.
RECURSIVE FromHex(_)
FromHex(s) ==
  IF s = <<>> THEN 0
  ELSE 16 * FromHex(SubSeq(s, 1, Len(s) - 1))
       + (CHOOSE d \in 0..15 : HexDigits[d + 1] = Last(s))

\* The first n bytes of a text; a character that the count cuts through is
\* left as the piece "cut".
RECURSIVE TakeBytes(_, _)
TakeBytes(s, n) ==
  IF n <= 0 \/ s = <<>> THEN <<>>
  ELSE IF Bytes(Head(s)) <= n
    THEN <<Head(s)>> \o TakeBytes(Tail(s), n - Bytes(Head(s)))
  ELSE <<"cut">>

\* A reader of the packet-line format takes the 4 hex digits LLLL and then
\* LLLL - 4 bytes of data.
ReadPacket ==
  /\ codec.st = "encoded"
  /\ codec' = [codec EXCEPT !.st = "read",
                            !.back = TakeBytes(SubSeq(codec.wire, 5, Len(codec.wire)),
                                               FromHex(SubSeq(codec.wire, 1, 4)) - 4)]
  /\ UNCHANGED <<dirs, webhooks, nextHookId, reqs, disp, deliveries, now, crashed, io, bare, repositories, foreignKeys, api>>

CodecNext == Encode \/ ReadPacket

CodecSpec == CodecInit /\ [][CodecNext]_vars

\* ------------------------------------------------------------------ claims
\* The outbound requests push r has issued to subscription `id`.
Posts(r, id) ==
  {i \in DOMAIN deliveries : deliveries[i].req = r /\ deliveries[i].hook.id = id}

\* The outbound requests push r has issued.
PostsOf(r) == {i \in DOMAIN deliveries : deliveries[i].req = r}

\* The subscriptions triggerWebhooks loaded for push r.
Loaded(r) == {disp[r].hooks[k] : k \in DOMAIN disp[r].hooks}

\* A receive-pack request whose subprocess has been seen to close.
PushClosed(r) == reqs[r].op = "receive" /\ reqs[r].proc = "closed"

NameChars == {"a", "b", "-", "_"}
isValidRepoName(repoName) ==
  /\ Len(repoName) >= 2
  /\ Last(repoName) = ".git"
  /\ \A k \in 1..(Len(repoName) - 1) : repoName[k] \in NameChars
  /\ ~Includes(repoName, <<".", ".">>)

\* The request has been handled by the request handler.
Handled(r) == reqs[r].st # "idle"

\* C2: a request whose repository name contains "..", "/" or a character
\* outside [A-Za-z0-9_-] is rejected and never gets a git subprocess.
C2_InvalidNameNeverSpawns ==
  \A r \in ReqIds :
    Handled(r) /\ ~isValidRepoName(Append(reqs[r].name, ".git")) =>
      reqs[r].proc = "none" /\ reqs[r].status \in {400, 404}

\* C3: discovery of an existing repository with a missing or unsupported
\* service is answered 400 and spawns nothing.
C3_InvalidServiceIs400 ==
  \A r \in ReqIds :
    /\ Handled(r) /\ reqs[r].suffix = SuffixInfoRefs
    /\ reqs[r].existed /\ reqs[r].service \notin ValidServices
    => reqs[r].status = 400 /\ reqs[r].proc = "none"

\* C4: discovery of a repository that does not exist is answered 404 with no
\* subprocess whatever the service, by the existence check (the handler's
\* 'Repository not found'), which comes before the service check.
C4_MissingRepoDecidedFirst ==
  \A r \in ReqIds :
    /\ Handled(r) /\ reqs[r].suffix = SuffixInfoRefs
    /\ reqs[r].repo # NoRepo /\ ~reqs[r].existed
    => /\ reqs[r].status = 404 /\ reqs[r].proc = "none"
       /\ reqs[r].text = "Repository not found"

\* C5: when git cannot be started and no body byte has been written, the
\* client gets a 5xx response that ends, and the server keeps running for
\* the other requests.
C5_SpawnFailureIs5xx ==
  \A r \in ReqIds :
    reqs[r].proc = "failed" =>
      reqs[r].status >= 500 /\ reqs[r].st = "ended" /\ ~crashed

\* C6: once the client connection of a request is closed while its
\* subprocess runs, the subprocess eventually stops running.
C6_ClosedConnectionEndsSubprocess ==
  \A r \in ReqIds :
    (reqs[r].conn = "closed" /\ reqs[r].proc = "running" /\ ~crashed)
      ~> (reqs[r].proc # "running" \/ crashed)

\* C7: a dispatch never waits on a delivery: while its loop has a request
\* prepared it can issue it, whatever the other deliveries are doing, and
\* once the loop has run every subscribed subscription with a well-formed
\* URL has had its POST, malformed or failing neighbours notwithstanding.
C7_DeliveriesIndependent ==
  \A r \in ReqIds :
    /\ disp[r].st = "running" /\ ~crashed => ENABLED DispatchSend(r)
    /\ disp[r].st = "done" =>
         \A w \in Loaded(r) :
           Subscribed(w, EventPush) /\ UrlParses(w.url) => Posts(r, w.id) # {}

\* C7 witness: subscriber B has been sent its POST and has answered while
\* subscriber A, sent first, still has not answered.
C7_Witness ==
  \E r \in ReqIds : \E i, j \in PostsOf(r) :
    /\ i < j
    /\ deliveries[i].st = "pending"
    /\ deliveries[j].st = "responded"
    /\ disp[r].st = "done"

\* The i-th outbound request has been issued and has not concluded.
Pending(i) == i \in DOMAIN deliveries /\ deliveries[i].st = "pending"

\* C8: every delivery that is pending eventually concludes.
C8_DeliveryConcludes ==
  \A i \in 1..(MaxReq * MaxHooks) :
    (Pending(i) /\ ~crashed) ~> (~Pending(i) \/ crashed)

\* C9: a dispatch issues at most one POST to a subscription, however its
\* deliveries end, and every delivery belongs to a push whose response was
\* already over with status 200 and stays so.
C9_NoRetryNoSurfacing ==
  /\ \A r \in ReqIds : \A id \in 1..MaxHooks : Cardinality(Posts(r, id)) <= 1
  /\ \A i \in DOMAIN deliveries :
       /\ reqs[deliveries[i].req].status = 200
       /\ reqs[deliveries[i].req].st \in {"ended", "aborted"}

\* C9 witness: a delivery failed on its connection, another was answered
\* with a non-2xx status, the dispatch is over and each was issued once.
C9_Witness ==
  \E i, j \in DOMAIN deliveries :
    /\ deliveries[i].st = "failed"
    /\ deliveries[j].st = "responded" /\ deliveries[j].status = 500
    /\ deliveries[i].req = deliveries[j].req
    /\ disp[deliveries[i].req].st = "done"
    /\ Cardinality(PostsOf(deliveries[i].req)) = 2
    /\ reqs[deliveries[i].req].st = "ended"

\* C10: a delivery has the signature header exactly when its subscription
\* has a non-empty secret, and the header is then "sha256=" and the hex
\* HMAC-SHA256, keyed by that secret, of the body sent in the same request.
C10_SignatureIffSecret ==
  \A i \in DOMAIN deliveries :
    IF deliveries[i].hook.secret # <<>>
      THEN deliveries[i].signature =
             <<"sha256=", HmacSha256Hex(deliveries[i].hook.secret, deliveries[i].body)>>
      ELSE deliveries[i].signature = NoSignature

\* C10 witness: one push delivered to a subscription with a secret (signed)
\* and to one without (no header).
C10_Witness ==
  \E i, j \in DOMAIN deliveries :
    /\ deliveries[i].req = deliveries[j].req
    /\ deliveries[i].hook.secret = <<"s">> /\ deliveries[i].signature # NoSignature
    /\ deliveries[j].hook.secret = <<>> /\ deliveries[j].signature = NoSignature

\* C11: any two distinct outbound requests, of one push or of two, carry
\* different values in the X-GutHib-Delivery header.
C11_DeliveryIdsUnique ==
  \A i, j \in DOMAIN deliveries :
    i # j => deliveries[i].delivery # deliveries[j].delivery

\* A discovery request that was answered 200.
Discovered(r) == reqs[r].op = "discovery" /\ reqs[r].status = 200

\* The first n items of a response body.
BodyPrefix(r, n) == SubSeq(Flat(reqs[r].out), 1, n)

PrefixUploadPack ==
  <<"0", "0", "1", "e", "# service=", "git-upload-pack", "\n", "0", "0", "0", "0">>
PrefixReceivePack001e ==
  <<"0", "0", "1", "e", "# service=", "git-receive-pack", "\n", "0", "0", "0", "0">>
PrefixReceivePack ==
  <<"0", "0", "1", "f", "# service=", "git-receive-pack", "\n", "0", "0", "0", "0">>

\* C12 (as stated): the body of a discovery response begins with
\* 001e# service=<service>\n0000 for git-upload-pack and for git-receive-pack.
C12_PrefixIs001e ==
  \A r \in ReqIds :
    Discovered(r) =>
      /\ Len(Flat(reqs[r].out)) >= 11
      /\ BodyPrefix(r, 11) =
           IF reqs[r].service = <<"git-upload-pack">>
             THEN PrefixUploadPack ELSE PrefixReceivePack001e

\* C12 (amended): the body of a discovery response begins with the packet
\* line of the announcement and a flush packet: 001e# service=git-upload-pack\n0000
\* for git-upload-pack, 001f# service=git-receive-pack\n0000 for
\* git-receive-pack, whose announcement is one byte longer.
C12_PrefixIsAnnouncement ==
  \A r \in ReqIds :
    Discovered(r) =>
      /\ Len(Flat(reqs[r].out)) >= 11
      /\ BodyPrefix(r, 11) =
           IF reqs[r].service = <<"git-upload-pack">>
             THEN PrefixUploadPack ELSE PrefixReceivePack

\* C12 witness: both services have been discovered on an existing repository.
C12_Witness ==
  \E r, q \in ReqIds :
    /\ Discovered(r) /\ reqs[r].service = <<"git-upload-pack">>
    /\ Discovered(q) /\ reqs[q].service = <<"git-receive-pack">>
    /\ BodyPrefix(q, 4) = <<"0", "0", "1", "f">>

\* C13: for a line of at most 65516 bytes, packetLine gives 4 lowercase hex
\* digits, zero padded, whose value is the line's byte length plus 4, then
\* the line unchanged; reading the prefix and that many bytes less 4 gives
\* the line back.
C13_EncodeInvertible ==
  codec.st \in {"encoded", "read"} /\ ByteLen(codec.line) <= MaxLineBytes =>
    /\ Len(codec.wire) = 4 + Len(codec.line)
    /\ SubSeq(codec.wire, 1, 4) = PadStart4(ToHex(ByteLen(codec.line) + 4))
    /\ SubSeq(codec.wire, 5, Len(codec.wire)) = codec.line
    /\ codec.st = "read" => codec.back = codec.line

\* The chunks numbered a to b, in order.
Chunks(a, b) == [k \in 1..(b - a + 1) |-> Chunk(a + k - 1)]

\* C14: a discovery response has the announcement and the flush packet
\* written by the time git is spawned (spawned or not); after them come the
\* chunks git has written, unmodified and in the order written, the rest
\* still waiting in the pipe in order; stderr adds nothing; and a response
\* that has ended holds all that git wrote, git's output having ended.
C14_AnnouncementThenOutputInOrder ==
  \A r \in ReqIds :
    Discovered(r) =>
      LET n == io[r].written - Len(io[r].pipeOut)
      IN /\ reqs[r].proc # "none"
         /\ n >= 0
         /\ reqs[r].out = Announcement(reqs[r].service) \o Chunks(1, n)
         /\ reqs[r].st # "aborted" => io[r].pipeOut = Chunks(n + 1, io[r].written)
         /\ reqs[r].st = "ended" => n = io[r].written /\ reqs[r].proc = "closed"
         /\ reqs[r].st = "open" /\ reqs[r].proc = "exited" /\ io[r].pipeOut = <<>> /\ ~crashed
              => ENABLED ProcClose(r)

\* C14 witness: a discovery response has ended with the announcement and
\* three chunks of output, which had to wait for the client on the way.
C14_Witness ==
  \E r \in ReqIds :
    /\ Discovered(r) /\ reqs[r].st = "ended"
    /\ io[r].written = 3
    /\ reqs[r].out = Announcement(reqs[r].service) \o <<Chunk(1), Chunk(2), Chunk(3)>>
    /\ io[r].ack < Len(reqs[r].out)

\* An upload-pack or receive-pack request with its subprocess spawned.
Relaying(r) == reqs[r].op \in {"upload", "receive"} /\ reqs[r].proc # "none"

\* C17: in an upload-pack or receive-pack session the response never holds
\* more than Hwm + 1 chunks the client has not taken (stdout is paused at
\* Hwm; one more chunk gets through when git exits), and git's stdin never
\* holds more than Hwm chunks git has not read (the request is paused).
C17_RelayBuffersBounded ==
  \A r \in ReqIds :
    Relaying(r) =>
      /\ Held(r) <= Hwm + 1
      /\ io[r].stdinHeld <= Hwm
      /\ Held(r) >= Hwm /\ reqs[r].proc = "running" => io[r].outPaused
      /\ io[r].stdinHeld >= Hwm => io[r].reqPaused

\* C17 witness: the client has taken nothing and git still has output to
\* write: stdout is paused, git is blocked in its write, it reads no input,
\* and the request is paused with body still to come.
C17_Witness ==
  \E r \in ReqIds :
    /\ Relaying(r) /\ reqs[r].proc = "running" /\ reqs[r].st = "open"
    /\ io[r].outPaused /\ Held(r) = Hwm /\ io[r].ack = 0
    /\ Len(io[r].pipeOut) = PipeCap /\ io[r].pmode = "writing"
    /\ io[r].reqPaused /\ io[r].stdinHeld = Hwm /\ reqs[r].bodyIn = "partial"

\* C15: an upload-pack or receive-pack session whose client sends its body
\* and keeps reading, and whose git reads its input and completes its
\* writes, always gets to the end of its response (unless the client goes
\* away or the server dies), whatever the order in which git reads and writes.
C15_DuplexRelayEnds ==
  \A r \in LiveIds :
    (Relaying(r) /\ reqs[r].proc = "running")
      ~> (reqs[r].st = "ended" \/ reqs[r].conn = "closed" \/ crashed)

\* C15 witness: an upload-pack response has ended after git read the whole
\* body and wrote more output than the pipes hold, all of it taken by the
\* client.
C15_Witness ==
  \E r \in LiveIds :
    /\ reqs[r].op = "upload" /\ reqs[r].st = "ended" /\ reqs[r].code = 0
    /\ io[r].consumed = MaxBody /\ io[r].written = MaxOut
    /\ io[r].ack = MaxOut

\* C16: while the git process of an upload-pack request on repository A is
\* stalled, an upload-pack request on repository B whose own client and git
\* process do not stall always gets to the end of its response (unless its
\* client goes away or the server dies).
C16_PeerRequestCompletes ==
  (/\ reqs[SlowReq].op = "upload" /\ reqs[SlowReq].proc = "running"
   /\ reqs[PeerReq].op = "upload" /\ reqs[PeerReq].proc = "running"
   /\ reqs[SlowReq].repo # reqs[PeerReq].repo)
    ~> (reqs[PeerReq].st = "ended" \/ reqs[PeerReq].conn = "closed" \/ crashed)

\* C16 witness: the request on B has ended, its whole exchange done, while
\* the git process of the request on A is still running with its input
\* backed up.
C16_Witness ==
  /\ reqs[SlowReq].op = "upload" /\ reqs[SlowReq].proc = "running"
  /\ io[SlowReq].reqPaused /\ io[SlowReq].consumed = 0
  /\ reqs[PeerReq].op = "upload" /\ reqs[PeerReq].st = "ended" /\ reqs[PeerReq].code = 0
  /\ reqs[SlowReq].repo # reqs[PeerReq].repo
  /\ io[PeerReq].consumed = MaxBody /\ io[PeerReq].written = MaxOut

\* C18: whenever a git subprocess was spawned for a request, the repository
\* directory existed and `git init --bare` had finished in it.
C18_SpawnOnlyOnBareRepository ==
  \A r \in ReqIds :
    reqs[r].proc # "none" => reqs[r].existed /\ reqs[r].inited

\* C19: a request on /info/refs with a method other than GET, or on
\* /git-upload-pack or /git-receive-pack with a method other than POST, is
\* not routed to a git operation and gets no subprocess.
C19_MethodDecidesOperation ==
  \A r \in ReqIds :
    /\ Handled(r)
    /\ \/ reqs[r].suffix = SuffixInfoRefs /\ reqs[r].method # "GET"
       \/ reqs[r].suffix \in {SuffixUploadPack, SuffixReceivePack} /\ reqs[r].method # "POST"
    => reqs[r].op = "none" /\ reqs[r].proc = "none"

\* The items of a comma-separated text.
RECURSIVE ItemsOf(_, _)
ItemsOf(text, item) ==
  IF text = <<>> THEN {item}
  ELSE IF Head(text) = "," THEN {item} \cup ItemsOf(Tail(text), <<>>)
  ELSE ItemsOf(Tail(text), Append(item, Head(text)))

\* The set of events a subscription is subscribed to.
EventSet(w) == ItemsOf(w.events, <<>>)

\* C20: once a dispatch of `push` has run, a subscription has been sent a
\* POST exactly when `push` is one of its subscribed events; one subscribed
\* only to other events, also to one whose name contains "push", has none.
C20_DeliveredIffMember ==
  \A r \in ReqIds :
    disp[r].st = "done" =>
      \A w \in Loaded(r) : (Posts(r, w.id) # {}) <=> (EventPush \in EventSet(w))

\* The decimal text of a webhook id.
IdText(i) == <<HexDigits[i + 1]>>

\* C27: a DELETE on /api/repos/<repo>.git/webhooks/<id> is answered by the
\* webhook route: it removes the webhooks row of that id and nothing else,
\* and leaves the repository directories and the repositories rows as they
\* were.
C27_WebhookDeleteKeepsRepository ==
  [][\A n \in {NameA, NameB}, i \in 1..MaxHooks :
       ApiDelete(WebhookUrl(RepoNameOf(n), IdText(i))) =>
         /\ dirs' = dirs
         /\ repositories' = repositories
         /\ webhooks' = {w \in webhooks : w.id # i}
         /\ api'.status = 200]_vars

\* C27's case: webhook 1 of an existing, registered repository was deleted
\* by such a request (no cascade on this connection), the repository stays.
C27_Witness ==
  /\ ~foreignKeys
  /\ api.method = "DELETE" /\ api.url = WebhookUrl(RepoNameOf(NameA), IdText(1))
  /\ api.status = 200
  /\ nextHookId > 1 /\ \A w \in webhooks : w.id # 1
  /\ RepoNameOf(NameA) \in dirs /\ RepoNameOf(NameA) \in repositories

\* C28: every stored webhook refers to a registered repository that is
\* there: a repository that has been deleted has no webhooks left.
C28_WebhooksReferToRepository ==
  \A w \in webhooks :
     w.repo_name \in repositories /\ getRepoPath(w.repo_name) \in dirs

\* C29: a repository directory exists under the repositories directory
\* exactly when the repositories table has a row of that name.
C29_DirectoryIffRow ==
  /\ \A d \in dirs : EndsWithGit(d) => d \in repositories
  /\ \A n \in repositories : getRepoPath(n) \in dirs

\* The dispatch of push r met a failure of its own: the subscriptions could
\* not be loaded, a URL did not parse, or a delivery failed.
DispatchFailed(r) ==
  \/ disp[r].st = "threw"
  \/ disp[r].urlErrors # {}
  \/ \E i \in PostsOf(r) : deliveries[i].st = "failed"

\* C21: the dispatch of a push starts only when its subprocess has closed
\* and its response is complete with status 200, whatever becomes of the
\* deliveries; and no failure inside the dispatch (loading the
\* subscriptions, building or sending a delivery) stops the server.
C21_DispatchDecoupled ==
  \A r \in ReqIds :
     /\ disp[r].st # "none" =>
          /\ reqs[r].proc = "closed"
          /\ reqs[r].st = "ended" /\ reqs[r].status = 200
     /\ DispatchFailed(r) => ~crashed

\* The member names of a JSON body.
Keys(body) == {body[k][1] : k \in DOMAIN body}

\* C22: the body of every delivery names the repository and carries the
\* ref, the commits and the pusher of the push.
C22_PayloadHasRefCommitsPusher ==
  \A i \in DOMAIN deliveries :
     /\ {"repository", "ref", "commits", "pusher"} \subseteq Keys(deliveries[i].body)
     /\ \E k \in DOMAIN deliveries[i].body :
          deliveries[i].body[k] = <<"repository", reqs[deliveries[i].req].repo>>

GitOps == {"discovery", "upload", "receive"}

\* C23: a git request that passes validation (status 200) has made exactly
\* one call of spawn and has the one subprocess of that call, a request
\* answered with 404 has made none and has none, and no request ever makes
\* a second call.
C23_OneSubprocessPerRequest ==
  \A r \in ReqIds :
     /\ reqs[r].spawns <= 1
     /\ (reqs[r].op \in GitOps /\ reqs[r].status = 200) =>
          (reqs[r].spawns = 1 /\ reqs[r].proc # "none")
     /\ reqs[r].status = 404 => (reqs[r].spawns = 0 /\ reqs[r].proc = "none")

\* C23's case: one request answered 404 for a missing repository and one
\* accepted request whose single subprocess has run to its close.
C23_Witness ==
  \E r, q \in ReqIds :
     /\ reqs[r].op \in GitOps /\ reqs[r].status = 404 /\ reqs[r].spawns = 0
     /\ reqs[q].status = 200 /\ reqs[q].spawns = 1 /\ reqs[q].proc = "closed"

\* C24: an upload-pack or discovery request never starts a dispatch and is
\* the origin of no delivery, whatever its subprocess exits with.
C24_OnlyReceivePackDispatches ==
  \A r \in ReqIds :
     reqs[r].op \in {"upload", "discovery"} =>
       (disp[r].st = "none" /\ PostsOf(r) = {})

\* C24's case: an upload-pack and a discovery request have both closed, the
\* former with exit status 0, on a repository that has a push subscription.
C24_Witness ==
  \E r, q \in ReqIds :
     /\ reqs[r].op = "upload" /\ reqs[r].proc = "closed" /\ reqs[r].code = 0
     /\ reqs[q].op = "discovery" /\ reqs[q].proc = "closed"
     /\ \E w \in webhooks :
          w.repo_name = reqs[r].repo /\ Subscribed(w, EventPush) /\ UrlParses(w.url)

\* C25: every write of a response body is a write of the discovery
\* announcement or a chunk the subprocess wrote to its standard output;
\* what it writes to standard error is logged and goes nowhere else.
C25_StderrNeverRelayed ==
  \A r \in ReqIds :
     LET n == IF reqs[r].op = "discovery" THEN Len(Announcement(reqs[r].service)) ELSE 0
     IN \A k \in DOMAIN reqs[r].out :
          IF k <= n THEN reqs[r].out[k] = Announcement(reqs[r].service)[k]
          ELSE \E j \in 1..io[r].written : reqs[r].out[k] = Chunk(j)

\* C25's case: git wrote to standard error and to standard output, and the
\* response has ended with output in it.
C25_Witness ==
  \E r \in ReqIds :
     /\ io[r].errLogged >= 1 /\ io[r].written >= 1
     /\ reqs[r].st = "ended" /\ Len(reqs[r].out) >= 1

\* C26: every 200 response of the three operations carries Cache-Control:
\* no-cache and the content type of its operation.
C26_ContentTypeAndNoCache ==
  \A r \in ReqIds :
     (reqs[r].op \in GitOps /\ reqs[r].status = 200) =>
       /\ reqs[r].cache = <<"no-cache">>
       /\ reqs[r].op = "discovery" /\ reqs[r].service = <<"git-upload-pack">> =>
            reqs[r].ctype = <<"application/x-git-", "upload-pack", "-advertisement">>
       /\ reqs[r].op = "discovery" /\ reqs[r].service = <<"git-receive-pack">> =>
            reqs[r].ctype = <<"application/x-git-", "receive-pack", "-advertisement">>
       /\ reqs[r].op = "upload" =>
            reqs[r].ctype = <<"application/x-git-upload-pack-result">>
       /\ reqs[r].op = "receive" =>
            reqs[r].ctype = <<"application/x-git-receive-pack-result">>

\* C26's case: a discovery of each service has been answered 200.
C26_Witness ==
  \E r, q \in ReqIds :
     /\ reqs[r].op = "discovery" /\ reqs[r].status = 200
     /\ reqs[r].service = <<"git-upload-pack">>
     /\ reqs[q].op = "discovery" /\ reqs[q].status = 200
     /\ reqs[q].service = <<"git-receive-pack">>

====
